---------------------------- MODULE Spec2Model ----------------------------
(***************************************************************************)
(* Model of SimulProyectoMMFI.py: the numerical core graphs() (the         *)
(* Euler-Maruyama simulation of an Ornstein-Uhlenbeck process and the      *)
(* density comparison) and the Tkinter handlers that invoke it.            *)
(*                                                                         *)
(* Python floats are modelled as exact rationals [n |-> num, d |-> den]    *)
(* in lowest terms with d > 0.  Square roots are taken only of perfect     *)
(* squares.  The Gaussian kernel and the normal density (exp) have no      *)
(* rational value: the density stage keeps the sample, the evaluation      *)
(* grid and the outcome of the fit, not the density values.                *)
(***************************************************************************)
EXTENDS Integers, Sequences, FiniteSets, TLC

\* ----------------------------------------------------------------- bounds
\* Largest time grid and largest ensemble whose cells are simulated.
MaxN == 3
MaxTraj == 2
\* Most render_plot threads alive at once, most after() callbacks outstanding.
MaxRenders == 2
MaxAfter == 2

\* ------------------------------------------------------------- arithmetic
Abs(a) == IF a < 0 THEN -a ELSE a

Max(a, b) == IF a >= b THEN a ELSE b

RECURSIVE GCD(_, _)
GCD(a, b) == IF b = 0 THEN a ELSE GCD(b, a % b)

\* the rational n/d in lowest terms, d # 0
Rat(n, d) ==
    LET g == GCD(Abs(n), Abs(d))
        s == IF d < 0 THEN -1 ELSE 1
    IN  [n |-> (s * n) \div g, d |-> (s * d) \div g]

QInt(k) == [n |-> k, d |-> 1]
Zero == QInt(0)
One == QInt(1)

QAdd(a, b) == Rat(a.n * b.d + b.n * a.d, a.d * b.d)
QSub(a, b) == Rat(a.n * b.d - b.n * a.d, a.d * b.d)
QMul(a, b) == Rat(a.n * b.n, a.d * b.d)
\* a / b for b # 0
QDiv(a, b) == Rat(a.n * b.d, a.d * b.n)
QLt(a, b) == a.n * b.d < b.n * a.d
QLe(a, b) == a.n * b.d <= b.n * a.d

\* np.ceil followed by int(): the least integer >= a
QCeil(a) == IF a.n >= 0 THEN (a.n + a.d - 1) \div a.d ELSE -((-a.n) \div a.d)

\* int() of a float: truncation towards zero
IntTrunc(a) == IF a.n >= 0 THEN a.n \div a.d ELSE -((-a.n) \div a.d)

ISqrt(k) == CHOOSE r \in 0..k : r * r = k
\* np.sqrt, on the rationals whose numerator and denominator are squares
QSqrt(a) == Rat(ISqrt(a.n), ISqrt(a.d))

\* ------------------------------------------------------- parameter record
\* Keys of the parameter dictionary (the Spanish labels of the entry fields).
kR == "Resistencia R"
kC == "Capacitancia C (uF)"
kV0 == "Voltaje inicial V0 (V)"
kVf == "Voltaje de la fuente Ve (V)"
kSigma == "Intensidad del ruido sigma"
kDt == "Paso temporal dt (s)"
kT == "Tiempo total T (s)"
kN == "Cantidad de corridas"

Keys == {kR, kC, kV0, kVf, kSigma, kDt, kT, kN}

\* A dictionary value: a number, or a text that float()/int() cannot parse.
NumV(q) == [num |-> TRUE, q |-> q]
StrV == [num |-> FALSE, q |-> Zero]

\* defaults of parametros.get(key, default)
DefaultR == 2000
DefaultCuF == 1000
DefaultV0 == 0
DefaultVf == 10
DefaultSigma == 1
DefaultDt == Rat(1, 100)
DefaultT == 10
DefaultNTraj == 20

\* the factor 1e-6 that converts microfarads to farads
Micro == Rat(1, 1000000)

\* the tuple assigned by the except branch
FallbackParams ==
    [R |-> QInt(2000), C |-> Rat(1, 1000), V0 |-> Zero, Vf |-> QInt(10),
     sigma |-> One, dt |-> Rat(1, 100), T |-> QInt(10), n_traj |-> 20]

\* parametros.get(key, default)
DictGet(parametros, key, default) ==
    IF key \in DOMAIN parametros THEN parametros[key] ELSE NumV(default)

\* Fetched with the default total time of the entry form (100 s)
FetchedFormDefaults(parametros) ==
    [R |-> DictGet(parametros, kR, QInt(DefaultR)),
     C |-> DictGet(parametros, kC, QInt(DefaultCuF)),
     V0 |-> DictGet(parametros, kV0, QInt(DefaultV0)),
     Vf |-> DictGet(parametros, kVf, QInt(DefaultVf)),
     sigma |-> DictGet(parametros, kSigma, QInt(DefaultSigma)),
     dt |-> DictGet(parametros, kDt, DefaultDt),
     T |-> DictGet(parametros, kT, QInt(100)),
     n_traj |-> DictGet(parametros, kN, QInt(DefaultNTraj))]

Fetched(parametros) ==
    [R |-> DictGet(parametros, kR, QInt(DefaultR)),
     C |-> DictGet(parametros, kC, QInt(DefaultCuF)),
     V0 |-> DictGet(parametros, kV0, QInt(DefaultV0)),
     Vf |-> DictGet(parametros, kVf, QInt(DefaultVf)),
     sigma |-> DictGet(parametros, kSigma, QInt(DefaultSigma)),
     dt |-> DictGet(parametros, kDt, DefaultDt),
     T |-> DictGet(parametros, kT, QInt(DefaultT)),
     n_traj |-> DictGet(parametros, kN, QInt(DefaultNTraj))]

\* no float()/int() of the try block raises
ParseOK(parametros) ==
    LET f == Fetched(parametros) IN \A k \in DOMAIN f : f[k].num

\* ClampRuns without the lower bound of 1
ClampRunsUnclamped(v) == IntTrunc(v)

\* n_traj = int(max(1, int(value)))
ClampRuns(v) == Max(1, IntTrunc(v))

\* ReadParams with the fallback applied field by field
ReadParamsPerField(parametros) ==
    LET f == Fetched(parametros)
        pick(k, v) == IF f[k].num THEN v ELSE FallbackParams[k]
    IN  [R |-> pick("R", f.R.q), C |-> pick("C", QMul(f.C.q, Micro)),
         V0 |-> pick("V0", f.V0.q), Vf |-> pick("Vf", f.Vf.q),
         sigma |-> pick("sigma", f.sigma.q), dt |-> pick("dt", f.dt.q),
         T |-> pick("T", f.T.q),
         n_traj |-> pick("n_traj", ClampRuns(f.n_traj.q))]

\* the eight locals after the try/except of graphs()
ReadParams(parametros) ==
    LET f == Fetched(parametros)
    IN  IF ParseOK(parametros)
        THEN [R |-> f.R.q, C |-> QMul(f.C.q, Micro), V0 |-> f.V0.q,
              Vf |-> f.Vf.q, sigma |-> f.sigma.q, dt |-> f.dt.q, T |-> f.T.q,
              n_traj |-> ClampRuns(f.n_traj.q)]
        ELSE FallbackParams

\* Theta without the guard against R * C = 0
ThetaUnguarded(R, C) ==
    LET rc == QMul(R, C)
    IN  IF rc # Zero THEN [ok |-> TRUE, val |-> QDiv(One, rc)]
        ELSE [ok |-> FALSE, val |-> Zero]

\* theta = 1.0 / (R * C) if R * C != 0 else 1.0 ; ok = FALSE stands for a
\* ZeroDivisionError
Theta(R, C) ==
    LET rc == QMul(R, C)
    IN  IF rc # Zero THEN [ok |-> TRUE, val |-> QDiv(One, rc)]
        ELSE [ok |-> TRUE, val |-> One]

\* GridSize rounding T / dt down
GridSizeFloor(T, dt) == Max(2, IntTrunc(QDiv(T, dt)))

\* N = max(2, int(np.ceil(T / dt)))
GridSize(T, dt) == Max(2, QCeil(QDiv(T, dt)))

\* np.linspace(lo, hi, num): num >= 2 evenly spaced points, the last one hi
Linspace(lo, hi, num) ==
    [k \in 0..(num - 1) |->
        IF k = num - 1 THEN hi
        ELSE QAdd(lo, QMul(QInt(k), QDiv(QSub(hi, lo), QInt(num - 1))))]


\* ------------------------------------------------------------------ state
VARIABLES
    pc,            \* position of the thread running graphs()
    parametros,    \* the dictionary passed to graphs()
    R, C, V0, Vf, sigma, dt, T, n_traj,   \* locals read from parametros
    theta, N, x,   \* mean-reversion rate, grid size, time grid
    trajectories,  \* the ensemble, rows 0..n_traj-1, columns 0..N-1
    normals,       \* the drawn increments, rows 0..n_traj-1, columns 0..N-2
    t,             \* loop variable of the time loop
    writes,        \* history: how often the time loop has assigned each cell
    mean_traj, data1,
    X_all,         \* the pooled sample handed to gaussian_kde
    synthesized,   \* history: the len(X_all) < 2 branch was taken
    data2,
    err,           \* the exception that left graphs(), "" when none
    graphs_thread, \* the thread that executes graphs()
    returned,      \* history: the tuple graphs() returned last
    screen,        \* the frame raised to the front
    entries,       \* text of the eight entry fields of InputScreen
    initial_values,    \* App.initial_values, shared between the screens
    dialog,        \* the modal error box of simular() is open
    gs_data1, gs_data2, gs_trajectories,   \* GraphScreen.data1, .data2, .trajectories
    current_mode,  \* GraphScreen.current_mode, "unset" before the first view
    is_rendering,  \* GraphScreen.is_rendering
    buttons,       \* state of btn_media, btn_pdf and btn_comparar
    renders,       \* the render_plot threads alive, in the order they started
    canvas,        \* App.canvas: the figure on display, NoFigure for None
    animating,     \* number of animate_label threads whose running is True
    show_runs,     \* GraphScreen.show_runs_var
    timers,        \* time left of the outstanding after() callbacks, in order
    pending_render_id   \* GraphScreen.pending_render_id

coreVars ==
    <<pc, parametros, R, C, V0, Vf, sigma, dt, T, n_traj, theta, N, x,
      trajectories, normals, t, writes, mean_traj, data1, X_all, synthesized,
      data2, err, graphs_thread, returned>>

\* the controls of GraphScreen and the threads that draw
renderVars ==
    <<is_rendering, buttons, renders, canvas, animating, show_runs, timers,
      pending_render_id>>

uiVars ==
    <<screen, entries, initial_values, dialog, gs_data1, gs_data2,
      gs_trajectories, current_mode, renderVars>>

vars == <<coreVars, uiVars>>

\* value of a local that has not been assigned yet
Unset == <<>>

\* the increments rng.standard_normal can return in the model
ZSet == {-1, 0, 1}

\* number of points of the density evaluation grid
GridPoints == 300

\* the offsets 0.1 and 1e-6 of the density stage
Margin == Rat(1, 10)
Epsilon == Rat(1, 1000000)

Rows == 0..(n_traj - 1)
Cols == 0..(N - 1)

\* ---------------------------------------------------------- graphs(): steps
\* Parse that writes the capacitance in farads back into the dictionary
ParseConvertsInPlace ==
    /\ pc = "call"
    /\ LET p == ReadParams(parametros)
       IN  /\ R' = p.R
           /\ C' = p.C
           /\ V0' = p.V0
           /\ Vf' = p.Vf
           /\ sigma' = p.sigma
           /\ dt' = p.dt
           /\ T' = p.T
           /\ n_traj' = p.n_traj
           /\ parametros' = [k \in DOMAIN parametros |->
                                IF k = kC THEN NumV(p.C) ELSE parametros[k]]
    /\ pc' = "derive"
    /\ UNCHANGED <<theta, N, x, trajectories, normals, t, writes,
                   mean_traj, data1, X_all, synthesized, data2, err>>
    /\ UNCHANGED <<graphs_thread, returned>>
    /\ UNCHANGED uiVars

\* lines 41-52: read the parameters, or fall back to the defaults
Parse ==
    /\ pc = "call"
    /\ LET p == ReadParams(parametros)
       IN  /\ R' = p.R
           /\ C' = p.C
           /\ V0' = p.V0
           /\ Vf' = p.Vf
           /\ sigma' = p.sigma
           /\ dt' = p.dt
           /\ T' = p.T
           /\ n_traj' = p.n_traj
    /\ pc' = "derive"
    /\ UNCHANGED <<parametros, theta, N, x, trajectories, normals, t, writes,
                   mean_traj, data1, X_all, synthesized, data2, err>>
    /\ UNCHANGED <<graphs_thread, returned>>
    /\ UNCHANGED uiVars

\* lines 54-57: theta, the grid size and the time grid; the grid and the
\* ensemble of a run larger than the bounds are not built
Derive ==
    /\ pc = "derive"
    /\ LET th == Theta(R, C)
       IN  IF th.ok
           THEN /\ theta' = th.val
                /\ N' = GridSize(T, dt)
                /\ IF GridSize(T, dt) <= MaxN /\ n_traj <= MaxTraj
                   THEN /\ x' = Linspace(Zero, T, GridSize(T, dt))
                        /\ pc' = "allocate"
                   ELSE /\ x' = x
                        /\ pc' = "beyond"
                /\ err' = err
           ELSE /\ pc' = "raised"
                /\ err' = "ZeroDivisionError"
                /\ UNCHANGED <<theta, N, x>>
    /\ UNCHANGED <<parametros, R, C, V0, Vf, sigma, dt, T, n_traj,
                   trajectories, normals, t, writes, mean_traj, data1, X_all,
                   synthesized, data2>>
    /\ UNCHANGED <<graphs_thread, returned>>
    /\ UNCHANGED uiVars

\* InitialEnsemble without the assignment of column 0
InitialEnsembleZeros(rows, cols, v0) ==
    [i \in rows |-> [c \in cols |-> Zero]]

\* lines 60-61: np.zeros((n_traj, N)) with column 0 set to V0
InitialEnsemble(rows, cols, v0) ==
    [i \in rows |-> [c \in cols |-> IF c = 0 THEN v0 ELSE Zero]]

\* lines 60-64: allocate the ensemble and draw every increment
Allocate ==
    /\ pc = "allocate"
    /\ N <= MaxN
    /\ n_traj <= MaxTraj
    /\ trajectories' = InitialEnsemble(Rows, Cols, V0)
    /\ normals' \in [Rows -> [0..(N - 2) -> ZSet]]
    /\ writes' = [i \in Rows |-> [c \in Cols |-> 0]]
    /\ t' = 1
    /\ pc' = "loop"
    /\ UNCHANGED <<parametros, R, C, V0, Vf, sigma, dt, T, n_traj, theta, N,
                   x, mean_traj, data1, X_all, synthesized, data2, err>>
    /\ UNCHANGED <<graphs_thread, returned>>
    /\ UNCHANGED uiVars

\* lines 68-72: the value written to column col of one row
EulerValue(row, zrow, col) ==
    QAdd(QAdd(row[col - 1],
              QMul(QMul(theta, QSub(Vf, row[col - 1])), dt)),
         QMul(QMul(sigma, QSqrt(dt)), QInt(zrow[col - 1])))

\* EulerColumn with the increments of row 0 used for every row
EulerColumnShared(traj, col) ==
    [i \in DOMAIN traj |->
        [traj[i] EXCEPT ![col] = EulerValue(traj[i], normals[0], col)]]

\* lines 68-72: trajectories[:, col] = ... for every row at once
EulerColumn(traj, col) ==
    [i \in DOMAIN traj |->
        [traj[i] EXCEPT ![col] = EulerValue(traj[i], normals[i], col)]]

\* lines 67-72: one iteration of for t in range(1, N)
EulerStep ==
    /\ pc = "loop"
    /\ t < N
    /\ trajectories' = EulerColumn(trajectories, t)
    /\ writes' = [i \in Rows |-> [writes[i] EXCEPT ![t] = @ + 1]]
    /\ t' = t + 1
    /\ UNCHANGED <<pc, parametros, R, C, V0, Vf, sigma, dt, T, n_traj, theta,
                   N, x, normals, mean_traj, data1, X_all, synthesized, data2,
                   err>>
    /\ UNCHANGED <<graphs_thread, returned>>
    /\ UNCHANGED uiVars

RECURSIVE ColumnSum(_, _, _)
ColumnSum(traj, col, i) ==
    IF i < 0 THEN Zero ELSE QAdd(traj[i][col], ColumnSum(traj, col, i - 1))

\* ColumnMean that returns row 0 instead of averaging the rows
ColumnMeanFirstRow(traj, rows, cols) == [c \in cols |-> traj[0][c]]

\* np.mean(trajectories, axis=0)
ColumnMean(traj, rows, cols) ==
    [c \in cols |->
        QDiv(ColumnSum(traj, c, Cardinality(rows) - 1), QInt(Cardinality(rows)))]

\* lines 74-77: the loop is over; mean trajectory and data1
MeanTrajectory ==
    /\ pc = "loop"
    /\ t >= N
    /\ mean_traj' = ColumnMean(trajectories, Rows, Cols)
    /\ data1' = [x |-> x, y |-> ColumnMean(trajectories, Rows, Cols),
                 n_traj |-> n_traj]
    /\ pc' = "flatten"
    /\ UNCHANGED <<parametros, R, C, V0, Vf, sigma, dt, T, n_traj, theta, N,
                   x, trajectories, normals, t, writes, X_all, synthesized,
                   data2, err>>
    /\ UNCHANGED <<graphs_thread, returned>>
    /\ UNCHANGED uiVars

\* Flat that pools the last column only (the values at time T)
FlatLastColumn(traj, rows, cols) ==
    [k \in 0..(Cardinality(rows) - 1) |-> traj[k][Cardinality(cols) - 1]]

\* trajectories.flatten(): row-major, index i * N + c
Flat(traj, rows, cols) ==
    [k \in 0..(Cardinality(rows) * Cardinality(cols) - 1) |->
        traj[k \div Cardinality(cols)][k % Cardinality(cols)]]

Len0(f) == Cardinality(DOMAIN f)

\* NeedsSynthesis with the bound off by one
NeedsSynthesisAtMostTwo(sample) == Len0(sample) <= 2

\* line 82: the guard of the point-synthesis branch
NeedsSynthesis(sample) == Len0(sample) < 2

\* line 83: np.array([X_all[0], X_all[0] + 1e-6])
Synthesize(sample) ==
    [k \in 0..1 |-> IF k = 0 THEN sample[0] ELSE QAdd(sample[0], Epsilon)]

\* Flatten that reshapes the ensemble itself into one row
FlattenReshapesInPlace ==
    /\ pc = "flatten"
    /\ X_all' = Flat(trajectories, Rows, Cols)
    /\ trajectories' = [i \in {0} |-> Flat(trajectories, Rows, Cols)]
    /\ synthesized' = FALSE
    /\ pc' = "kde"
    /\ UNCHANGED <<parametros, R, C, V0, Vf, sigma, dt, T, n_traj, theta, N,
                   x, normals, t, writes, mean_traj, data1, data2, err>>
    /\ UNCHANGED <<graphs_thread, returned>>
    /\ UNCHANGED uiVars

\* lines 81-83: pool every cell; replace a sample of fewer than 2 values
Flatten ==
    /\ pc = "flatten"
    /\ LET flat == Flat(trajectories, Rows, Cols)
       IN  IF NeedsSynthesis(flat)
           THEN /\ X_all' = Synthesize(flat)
                /\ synthesized' = TRUE
           ELSE /\ X_all' = flat
                /\ synthesized' = FALSE
    /\ pc' = "kde"
    /\ UNCHANGED <<parametros, R, C, V0, Vf, sigma, dt, T, n_traj, theta, N,
                   x, trajectories, normals, t, writes, mean_traj, data1,
                   data2, err>>
    /\ UNCHANGED <<graphs_thread, returned>>
    /\ UNCHANGED uiVars

Values(sample) == {sample[k] : k \in DOMAIN sample}

QMin(S) == CHOOSE m \in S : \A y \in S : QLe(m, y)
QMax(S) == CHOOSE m \in S : \A y \in S : QLe(y, m)

\* scipy's gaussian_kde(dataset): the covariance of a sample whose values
\* are all equal is singular and the constructor raises LinAlgError
KdeFits(sample) == Cardinality(Values(sample)) >= 2

\* the number c + k * exp(e) for rationals c, k, e: np.exp has no rational
\* value, so a quantity that contains it is kept in this form
ExpForm(c, k, e) == [c |-> c, k |-> k, e |-> e]

\* line 89: mean_an = Vf + (V0 - Vf) * np.exp(-theta * T)
MeanAn(v0, vf, th, tt) == ExpForm(vf, QSub(v0, vf), QMul(QSub(Zero, th), tt))

\* VarAn with sigma**2 / theta as the stationary variance
VarAnNoHalf(s, th, tt) ==
    LET a == QDiv(QMul(s, s), th)
    IN  ExpForm(a, QSub(Zero, a), QMul(QMul(QInt(-2), th), tt))

\* line 90: var_an = sigma**2 / (2 * theta) * (1 - np.exp(-2 * theta * T))
VarAn(s, th, tt) ==
    LET a == QDiv(QMul(s, s), QMul(QInt(2), th))
    IN  ExpForm(a, QSub(Zero, a), QMul(QMul(QInt(-2), th), tt))

\* line 91: norm.pdf(x_vals, mean_an, np.sqrt(var_an)), kept by the mean and
\* the variance of the normal density
PdfAn(v0, vf, s, th, tt) ==
    [mean |-> MeanAn(v0, vf, th, tt), var |-> VarAn(s, th, tt)]

\* lines 86-105: the evaluation grid np.linspace(min - 0.1, max + 0.1, 300),
\* kept by its end points, its number of points and its spacing dx; pdf_sim
\* kept by the size of the sample the KDE was fitted on, pdf_an by its
\* parameters; the density values and the two metrics are not represented
Comparison(sample, runs, an) ==
    LET lo == QSub(QMin(Values(sample)), Margin)
        hi == QAdd(QMax(Values(sample)), Margin)
    IN  [x_lo |-> lo, x_hi |-> hi, points |-> GridPoints,
         dx |-> QDiv(QSub(hi, lo), QInt(GridPoints - 1)),
         n_traj |-> runs, sample |-> Len0(sample), pdf_an |-> an]

\* lines 85-107: fit, evaluation grid, metrics, return
Density ==
    /\ pc = "kde"
    /\ KdeFits(X_all)
    /\ data2' = Comparison(X_all, n_traj, PdfAn(V0, Vf, sigma, theta, T))
    /\ returned' = <<data1, data2', trajectories>>
    /\ pc' = "done"
    /\ UNCHANGED <<parametros, R, C, V0, Vf, sigma, dt, T, n_traj, theta, N,
                   x, trajectories, normals, t, writes, mean_traj, data1,
                   X_all, synthesized, err, graphs_thread>>
    /\ UNCHANGED uiVars

\* line 85: gaussian_kde raises and the exception leaves graphs()
DensityRaises ==
    /\ pc = "kde"
    /\ ~KdeFits(X_all)
    /\ pc' = "raised"
    /\ err' = "LinAlgError"
    /\ UNCHANGED <<parametros, R, C, V0, Vf, sigma, dt, T, n_traj, theta, N,
                   x, trajectories, normals, t, writes, mean_traj, data1,
                   X_all, synthesized, data2>>
    /\ UNCHANGED <<graphs_thread, returned>>
    /\ UNCHANGED uiVars

GraphsStep ==
    \/ Parse
    \/ Derive
    \/ Allocate
    \/ EulerStep
    \/ MeanTrajectory
    \/ Flatten
    \/ Density
    \/ DensityRaises

\* ------------------------------------------------- graphs() called directly
\* values of the records graphs() is called with
FullRecord(r, c, v0, vf, s, d, tt, n) ==
    (kR :> NumV(r)) @@ (kC :> NumV(c)) @@ (kV0 :> NumV(v0)) @@
    (kVf :> NumV(vf)) @@ (kSigma :> NumV(s)) @@ (kDt :> NumV(d)) @@
    (kT :> NumV(tt)) @@ (kN :> NumV(n))

\* complete records: every combination of circuit, start and grid values, run
\* as a single trajectory
CircuitRecords ==
    {FullRecord(QInt(r), QInt(c), QInt(v0), QInt(5), QInt(2), QInt(d),
                QInt(tt), One) :
        r \in {0, 1000, 2000}, c \in {0, 1000}, v0 \in {-3, 5},
        d \in {1, 4}, tt \in {1, MaxN, 9, MaxN + 1}}

\* complete records: every ensemble size up to one past the bound
EnsembleRecords ==
    {FullRecord(QInt(2000), QInt(1000), QInt(v0), QInt(5), QInt(2), One,
                QInt(tt), QInt(n)) :
        v0 \in {-3, 5}, tt \in {1, MaxN}, n \in 1..(MaxTraj + 1)}

\* complete records: the circuit R = 2000, C = 1000 uF started at 0 V with a
\* 10 V source, for two total times on a grid of step 4
AnalyticRecords ==
    {FullRecord(QInt(2000), QInt(1000), Zero, QInt(10), One, QInt(4),
                QInt(tt), One) : tt \in {5, 10}}

\* complete records: run counts that are zero or negative
RunCountRecords ==
    {FullRecord(QInt(2000), QInt(1000), QInt(5), QInt(5), QInt(2), One,
                QInt(tt), QInt(n)) : tt \in {1, MaxN}, n \in {-2, -1, 0}}

CompleteRecords ==
    CircuitRecords \cup EnsembleRecords \cup AnalyticRecords
        \cup RunCountRecords

BaseRecord ==
    FullRecord(QInt(1000), QInt(500), QInt(-3), QInt(5), QInt(2), One,
               QInt(3), QInt(2))

Restrict(f, S) == [k \in S |-> f[k]]

\* records with any set of fields left out
PartialRecords == {Restrict(BaseRecord, S) : S \in SUBSET Keys}

\* records with one field that float()/int() cannot parse
MalformedRecords == {[BaseRecord EXCEPT ![k] = StrV] : k \in Keys}

CoreRecords == CompleteRecords \cup PartialRecords \cup MalformedRecords

\* the locals of a call of graphs() before its first statement
FreshFrame ==
    /\ R = Unset /\ C = Unset /\ V0 = Unset /\ Vf = Unset
    /\ sigma = Unset /\ dt = Unset /\ T = Unset /\ n_traj = 0
    /\ theta = Unset /\ N = 0 /\ x = Unset
    /\ trajectories = Unset /\ normals = Unset /\ t = 0 /\ writes = Unset
    /\ mean_traj = Unset /\ data1 = Unset /\ X_all = Unset
    /\ synthesized = FALSE /\ data2 = Unset /\ err = ""

\* what a call of graphs() finds: the thread that makes it and the history
\* of earlier returns
NoReturnYet == <<Unset, Unset, Unset>>

\* the same, of the call that the step enters or leaves
EnterFreshFrame ==
    /\ R' = Unset /\ C' = Unset /\ V0' = Unset /\ Vf' = Unset
    /\ sigma' = Unset /\ dt' = Unset /\ T' = Unset /\ n_traj' = 0
    /\ theta' = Unset /\ N' = 0 /\ x' = Unset
    /\ trajectories' = Unset /\ normals' = Unset /\ t' = 0 /\ writes' = Unset
    /\ mean_traj' = Unset /\ data1' = Unset /\ X_all' = Unset
    /\ synthesized' = FALSE /\ data2' = Unset /\ err' = ""

\* --------------------------------------------------------- Tkinter screens
\* the order in which InputScreen creates, and simular() visits, the entries
EntryOrder == <<kVf, kV0, kC, kR, kSigma, kDt, kT, kN>>

\* default_values of InputScreen
DefaultEntries ==
    (kVf :> NumV(QInt(10))) @@ (kV0 :> NumV(Zero)) @@
    (kC :> NumV(QInt(1000))) @@ (kR :> NumV(QInt(2000))) @@
    (kSigma :> NumV(One)) @@ (kDt :> NumV(Rat(1, 100))) @@
    (kT :> NumV(QInt(100))) @@ (kN :> NumV(QInt(20)))

\* the form filled for one run of one step: dt = T = 1, the other fields as
\* given or left at their defaults
ShortForm(v0, c, s, n) ==
    [DefaultEntries EXCEPT ![kV0] = v0, ![kC] = c, ![kSigma] = s,
                           ![kDt] = NumV(One), ![kT] = NumV(One), ![kN] = n]

\* what the user may have typed into the entries: the defaults; a short run
\* started at the source voltage; a capacitance that is no number; a noise
\* intensity of 0; a run count of 0
Forms ==
    {DefaultEntries,
     ShortForm(NumV(QInt(10)), NumV(QInt(1000)), NumV(One), NumV(One)),
     ShortForm(NumV(QInt(10)), StrV, NumV(One), NumV(One)),
     ShortForm(NumV(Zero), NumV(QInt(1000)), NumV(Zero), NumV(One)),
     ShortForm(NumV(Zero), NumV(QInt(1000)), NumV(One), NumV(Zero))}

\* the voltages simular() exempts from the sign check
SignExempt == {kV0, "Voltaje promedio V_prom (V)"}

\* EntryAccepted with zero let through
EntryAcceptedNonNegative(k, v) ==
    /\ v.num
    /\ IF k = kN THEN ~(IntTrunc(v.q) < 0)
       ELSE ~(k \notin SignExempt /\ QLt(v.q, Zero))

\* simular(): var.get(), int()/float() and the sign check of one entry pass
EntryAccepted(k, v) ==
    /\ v.num
    /\ IF k = kN THEN ~(IntTrunc(v.q) <= 0)
       ELSE ~(k \notin SignExempt /\ QLe(v.q, Zero))

\* simular(): valor_num, the value stored in initial_values
ValorNum(k, v) == IF k = kN THEN NumV(QInt(IntTrunc(v.q))) ELSE v

\* index in EntryOrder of the first entry simular() rejects, 9 when none
FirstRejected(e) ==
    LET bad == {j \in 1..Len(EntryOrder) :
                    ~EntryAccepted(EntryOrder[j], e[EntryOrder[j]])}
    IN  IF bad = {} THEN Len(EntryOrder) + 1
        ELSE CHOOSE j \in bad : \A m \in bad : j <= m

\* initial_values after the for loop of simular() stored the entries that
\* precede index upto
StoreEntries(iv, e, upto) ==
    LET done == {EntryOrder[j] : j \in 1..(upto - 1)}
    IN  [k \in (DOMAIN iv) \cup done |->
            IF k \in done THEN ValorNum(k, e[k]) ELSE iv[k]]

UiIdle == pc = "idle" /\ ~dialog

\* PresentationScreen: the button that opens InputScreen
OpenInputScreen ==
    /\ UiIdle
    /\ screen = "PresentationScreen"
    /\ screen' = "InputScreen"
    /\ UNCHANGED <<coreVars, entries, initial_values, dialog, gs_data1,
                   gs_data2, gs_trajectories, current_mode, renderVars>>

\* InputScreen: the Regresar button
InputBack ==
    /\ UiIdle
    /\ screen = "InputScreen"
    /\ screen' = "PresentationScreen"
    /\ UNCHANGED <<coreVars, entries, initial_values, dialog, gs_data1,
                   gs_data2, gs_trajectories, current_mode, renderVars>>

\* GraphScreen: the Regresar button
GraphBack ==
    /\ UiIdle
    /\ screen = "GraphScreen"
    /\ screen' = "InputScreen"
    /\ UNCHANGED <<coreVars, entries, initial_values, dialog, gs_data1,
                   gs_data2, gs_trajectories, current_mode, renderVars>>

\* the form of the short run that returns or raises: V0 = Vf = 10
ShortRuns ==
    {ShortForm(NumV(QInt(10)), NumV(QInt(1000)), NumV(One), NumV(One))}

\* the user types one of the forms F into the entries of InputScreen
EditEntry(F) ==
    /\ UiIdle
    /\ screen = "InputScreen"
    /\ \E f \in F :
          /\ f # entries
          /\ entries' = f
    /\ UNCHANGED <<coreVars, screen, initial_values, dialog, gs_data1,
                   gs_data2, gs_trajectories, current_mode, renderVars>>

\* SimularAccepted with graphs() handed to a thread of its own
SimularAcceptedOnThread ==
    /\ UiIdle
    /\ screen = "InputScreen"
    /\ FirstRejected(entries) > Len(EntryOrder)
    /\ initial_values' = StoreEntries(initial_values, entries,
                                      FirstRejected(entries))
    /\ screen' = "GraphScreen"
    /\ parametros' = initial_values'
    /\ pc' = "call"
    /\ graphs_thread' = "Thread-1"
    /\ EnterFreshFrame
    /\ UNCHANGED <<returned, entries, dialog, gs_data1, gs_data2,
                   gs_trajectories, current_mode, renderVars>>

\* simular(), every entry accepted: store the values, raise GraphScreen and
\* enter generate_graphs(), which calls graphs(self.master.initial_values)
SimularAccepted ==
    /\ UiIdle
    /\ screen = "InputScreen"
    /\ FirstRejected(entries) > Len(EntryOrder)
    /\ initial_values' = StoreEntries(initial_values, entries,
                                      FirstRejected(entries))
    /\ screen' = "GraphScreen"
    /\ parametros' = initial_values'
    /\ pc' = "call"
    /\ graphs_thread' = "MainThread"
    /\ EnterFreshFrame
    /\ UNCHANGED <<returned, entries, dialog, gs_data1, gs_data2,
                   gs_trajectories, current_mode, renderVars>>

\* simular(), an entry rejected: the entries before it were stored, the
\* exception is caught and the error box is shown
SimularRejected ==
    /\ UiIdle
    /\ screen = "InputScreen"
    /\ FirstRejected(entries) <= Len(EntryOrder)
    /\ initial_values' = StoreEntries(initial_values, entries,
                                      FirstRejected(entries))
    /\ dialog' = TRUE
    /\ UNCHANGED <<coreVars, screen, entries, gs_data1, gs_data2,
                   gs_trajectories, current_mode, renderVars>>

\* the figure display_figure() is asked for: data_list and compare give its
\* kind (one mean plot, one density plot, or both side by side), extra_trajs
\* says whether the runs are drawn behind the mean
Figure(kind, runs) == [kind |-> kind, runs |-> runs]

\* self.canvas = None
NoFigure == Figure("None", FALSE)

\* extra = self.trajectories if show_runs else None
ExtraTrajs(sr, tr) == sr /\ tr # Unset

\* a render_plot thread: where it is, whether every item of its data_list
\* can be drawn (an item that is None cannot) and the figure it draws
RenderThread(ok, fig) == [at |-> "started", ok |-> ok, fig |-> fig]

\* display_figure(): destroy the canvas on display, disable the three
\* buttons, start the animation thread and a render_plot thread
DisplayFigure(ok, fig) ==
    /\ Len(renders) < MaxRenders
    /\ canvas' = NoFigure
    /\ buttons' = "disabled"
    /\ animating' = animating + 1
    /\ renders' = Append(renders, RenderThread(ok, fig))

\* show_graph1(), on the data stored in d1 and the runs stored in tr, with
\* the check button at sr
ShowGraph1(d1, tr, sr) ==
    /\ current_mode' = "media"
    /\ DisplayFigure(d1 # Unset, Figure("media", ExtraTrajs(sr, tr)))

\* show_graph2()
ShowGraph2 ==
    /\ current_mode' = "pdf"
    /\ DisplayFigure(gs_data2 # Unset, Figure("pdf", FALSE))

\* show_compare(), with the check button at sr
ShowCompare(sr) ==
    /\ current_mode' = "comparacion"
    /\ DisplayFigure(gs_data1 # Unset /\ gs_data2 # Unset,
                     Figure("comparacion", ExtraTrajs(sr, gs_trajectories)))

\* _on_toggle_show_runs() with the check button at sr: dropped while a
\* render is flagged, else the view of the current mode is drawn again
OnToggleShowRuns(sr) ==
    IF is_rendering
    THEN UNCHANGED <<current_mode, buttons, renders, canvas, animating>>
    ELSE IF current_mode \in {"unset", "media"}
         THEN ShowGraph1(gs_data1, gs_trajectories, sr)
    ELSE IF current_mode = "pdf" THEN ShowGraph2
    ELSE ShowCompare(sr)

\* _on_pdf_colors_changed(): dropped while a render is flagged, else the
\* density view alone is drawn, whatever the current mode
OnPdfColorsChanged ==
    IF is_rendering
    THEN UNCHANGED <<current_mode, buttons, renders, canvas, animating>>
    ELSE /\ DisplayFigure(gs_data2 # Unset, Figure("pdf", FALSE))
         /\ current_mode' = current_mode

\* GenerateGraphs that keeps the runs of the earlier simulation
GenerateGraphsKeepsRuns ==
    /\ pc = "done"
    /\ screen = "GraphScreen"
    /\ gs_data1' = data1
    /\ gs_data2' = data2
    /\ gs_trajectories' =
          (IF gs_trajectories = Unset THEN trajectories ELSE gs_trajectories)
    /\ ShowGraph1(data1, gs_trajectories', show_runs)
    /\ pc' = "idle"
    /\ parametros' = <<>>
    /\ EnterFreshFrame
    /\ UNCHANGED <<graphs_thread, returned>>
    /\ UNCHANGED <<screen, entries, initial_values, dialog, is_rendering,
                   show_runs, timers, pending_render_id>>

\* generate_graphs() after graphs() returned: keep the three results, select
\* the mean view and draw it
GenerateGraphs ==
    /\ pc = "done"
    /\ screen = "GraphScreen"
    /\ gs_data1' = data1
    /\ gs_data2' = data2
    /\ gs_trajectories' = trajectories
    /\ ShowGraph1(data1, gs_trajectories', show_runs)
    /\ pc' = "idle"
    /\ parametros' = <<>>
    /\ EnterFreshFrame
    /\ UNCHANGED <<graphs_thread, returned>>
    /\ UNCHANGED <<screen, entries, initial_values, dialog, is_rendering,
                   show_runs, timers, pending_render_id>>

\* simular(): an exception raised inside graphs() reaches the except clause
SimularCatches ==
    /\ pc = "raised"
    /\ screen = "GraphScreen"
    /\ dialog' = TRUE
    /\ pc' = "idle"
    /\ parametros' = <<>>
    /\ EnterFreshFrame
    /\ UNCHANGED <<graphs_thread, returned>>
    /\ UNCHANGED <<screen, entries, initial_values, gs_data1, gs_data2,
                   gs_trajectories, current_mode, renderVars>>

\* the user closes the error box
DismissError ==
    /\ pc = "idle"
    /\ dialog
    /\ dialog' = FALSE
    /\ UNCHANGED <<coreVars, screen, entries, initial_values, gs_data1,
                   gs_data2, gs_trajectories, current_mode, renderVars>>

\* ---------------------------------------------- GraphScreen: the controls
\* the main thread is in the event loop and GraphScreen is in front
GraphControls == UiIdle /\ screen = "GraphScreen"

\* the controls gridded by _show_media_controls / _show_compare_controls,
\* and by _show_pdf_controls / _show_compare_controls
MediaControlsShown == current_mode \in {"media", "comparacion"}
PdfControlsShown == current_mode \in {"pdf", "comparacion"}

\* the Media button
ClickMedia ==
    /\ GraphControls
    /\ buttons = "normal"
    /\ ShowGraph1(gs_data1, gs_trajectories, show_runs)
    /\ UNCHANGED <<coreVars, screen, entries, initial_values, dialog,
                   gs_data1, gs_data2, gs_trajectories, is_rendering,
                   show_runs, timers, pending_render_id>>

\* the PDF button
ClickPdf ==
    /\ GraphControls
    /\ buttons = "normal"
    /\ ShowGraph2
    /\ UNCHANGED <<coreVars, screen, entries, initial_values, dialog,
                   gs_data1, gs_data2, gs_trajectories, is_rendering,
                   show_runs, timers, pending_render_id>>

\* the Comparar button
ClickComparar ==
    /\ GraphControls
    /\ buttons = "normal"
    /\ ShowCompare(show_runs)
    /\ UNCHANGED <<coreVars, screen, entries, initial_values, dialog,
                   gs_data1, gs_data2, gs_trajectories, is_rendering,
                   show_runs, timers, pending_render_id>>

\* the check button "Mostrar corridas", which flips show_runs_var, or a
\* colour picked in the combobox of the mean: both call
\* _on_toggle_show_runs()
MediaStyleChanged ==
    /\ GraphControls
    /\ MediaControlsShown
    /\ \E flipped \in BOOLEAN :
          /\ show_runs' = (IF flipped THEN ~show_runs ELSE show_runs)
          /\ OnToggleShowRuns(show_runs')
    /\ UNCHANGED <<coreVars, screen, entries, initial_values, dialog,
                   gs_data1, gs_data2, gs_trajectories, is_rendering, timers,
                   pending_render_id>>

\* a colour picked in one of the two comboboxes of the densities
PdfStyleChanged ==
    /\ GraphControls
    /\ PdfControlsShown
    /\ OnPdfColorsChanged
    /\ UNCHANGED <<coreVars, screen, entries, initial_values, dialog,
                   gs_data1, gs_data2, gs_trajectories, is_rendering,
                   show_runs, timers, pending_render_id>>

\* the delay of after(200, ...), in ticks of 100 ms
DebounceTicks == 2

\* Rescheduled without after_cancel
RescheduledNoCancel(tm, id) == Append(tm, DebounceTicks)

\* _debounce_redraw(): the callbacks outstanding after it; the identifier
\* kept in pending_render_id is that of the callback scheduled last, which
\* is outstanding exactly when any callback is
Rescheduled(tm, id) ==
    Append(IF id # "None" /\ tm # <<>> THEN SubSeq(tm, 1, Len(tm) - 1) ELSE tm,
           DebounceTicks)

\* an arrow of the opacity or line-width spinbox: _debounce_redraw()
SpinChanged ==
    /\ GraphControls
    /\ MediaControlsShown
    /\ Len(Rescheduled(timers, pending_render_id)) <= MaxAfter
    /\ timers' = Rescheduled(timers, pending_render_id)
    /\ pending_render_id' = "after"
    /\ UNCHANGED <<coreVars, screen, entries, initial_values, dialog,
                   gs_data1, gs_data2, gs_trajectories, current_mode,
                   is_rendering, buttons, renders, canvas, animating,
                   show_runs>>

\* 100 ms pass
Tick ==
    /\ \E i \in 1..Len(timers) : timers[i] > 0
    /\ timers' = [i \in 1..Len(timers) |-> Max(0, timers[i] - 1)]
    /\ UNCHANGED <<coreVars, screen, entries, initial_values, dialog,
                   gs_data1, gs_data2, gs_trajectories, current_mode,
                   is_rendering, buttons, renders, canvas, animating,
                   show_runs, pending_render_id>>

\* the event loop runs a callback that is due: _on_toggle_show_runs()
AfterFires ==
    /\ pc = "idle"
    /\ timers # <<>>
    /\ Head(timers) = 0
    /\ timers' = Tail(timers)
    /\ OnToggleShowRuns(show_runs)
    /\ UNCHANGED <<coreVars, screen, entries, initial_values, dialog,
                   gs_data1, gs_data2, gs_trajectories, is_rendering,
                   show_runs, pending_render_id>>

\* ------------------------------------------------ render_plot: the threads
RemoveAt(seq, i) == SubSeq(seq, 1, i - 1) \o SubSeq(seq, i + 1, Len(seq))

\* line 189: the thread raises the flag
RenderBegin(i) ==
    /\ renders[i].at = "started"
    /\ is_rendering' = TRUE
    /\ renders' = [renders EXCEPT ![i].at = "drawing"]
    /\ UNCHANGED <<coreVars, screen, entries, initial_values, dialog,
                   gs_data1, gs_data2, gs_trajectories, current_mode,
                   buttons, canvas, animating, show_runs, timers,
                   pending_render_id>>

\* lines 190-295: the figure is drawn and put on the canvas, the animation
\* is stopped and the flag is lowered
RenderDraw(i) ==
    /\ renders[i].at = "drawing"
    /\ renders[i].ok
    /\ canvas' = renders[i].fig
    /\ animating' = animating - 1
    /\ is_rendering' = FALSE
    /\ renders' = [renders EXCEPT ![i].at = "enabling"]
    /\ UNCHANGED <<coreVars, screen, entries, initial_values, dialog,
                   gs_data1, gs_data2, gs_trajectories, current_mode,
                   buttons, show_runs, timers, pending_render_id>>

\* lines 213, 245, 261: unpacking an item that is None raises and the thread
\* ends with the flag up, the buttons disabled and the animation running
RenderRaises(i) ==
    /\ renders[i].at = "drawing"
    /\ ~renders[i].ok
    /\ renders' = RemoveAt(renders, i)
    /\ UNCHANGED <<coreVars, screen, entries, initial_values, dialog,
                   gs_data1, gs_data2, gs_trajectories, current_mode,
                   is_rendering, buttons, canvas, animating, show_runs,
                   timers, pending_render_id>>

\* lines 298-300: the three buttons are enabled and the thread ends
RenderEnable(i) ==
    /\ renders[i].at = "enabling"
    /\ buttons' = "normal"
    /\ renders' = RemoveAt(renders, i)
    /\ UNCHANGED <<coreVars, screen, entries, initial_values, dialog,
                   gs_data1, gs_data2, gs_trajectories, current_mode,
                   is_rendering, canvas, animating, show_runs, timers,
                   pending_render_id>>

RenderStep ==
    \E i \in 1..Len(renders) :
        \/ RenderBegin(i)
        \/ RenderDraw(i)
        \/ RenderRaises(i)
        \/ RenderEnable(i)

\* ------------------------------------------------------- specifications
\* the application after App.__init__
Constructed ==
    /\ screen = "PresentationScreen"
    /\ entries = DefaultEntries
    /\ initial_values = <<>>
    /\ dialog = FALSE
    /\ gs_data1 = Unset /\ gs_data2 = Unset /\ gs_trajectories = Unset
    /\ current_mode = "unset"
    /\ is_rendering = FALSE
    /\ buttons = "normal"
    /\ renders = <<>>
    /\ canvas = NoFigure
    /\ animating = 0
    /\ show_runs = TRUE
    /\ timers = <<>>
    /\ pending_render_id = "None"

\* graphs() called on a record of CoreRecords
Init ==
    /\ pc = "call"
    /\ parametros \in CoreRecords
    /\ FreshFrame
    /\ graphs_thread = "MainThread"
    /\ returned = NoReturnYet
    /\ Constructed

Next == GraphsStep

Spec == Init /\ [][Next]_vars

\* the application after construction, the main thread in the event loop
InitUI ==
    /\ pc = "idle"
    /\ parametros = <<>>
    /\ FreshFrame
    /\ graphs_thread = "none"
    /\ returned = NoReturnYet
    /\ Constructed

\* the application used for one simulation after another: any form typed,
\* accepted or rejected, the three view buttons of GraphScreen, the way back
NextUI ==
    \/ OpenInputScreen
    \/ InputBack
    \/ GraphBack
    \/ EditEntry(Forms)
    \/ SimularAccepted
    \/ SimularRejected
    \/ GenerateGraphs
    \/ SimularCatches
    \/ DismissError
    \/ ClickMedia
    \/ ClickPdf
    \/ ClickComparar
    \/ RenderStep
    \/ GraphsStep

SpecUI == InitUI /\ [][NextUI]_vars

\* the application used for one simulation, of the short run: every control
\* of GraphScreen, the debounce timers and the render threads
NextScreen ==
    \/ OpenInputScreen
    \/ EditEntry(ShortRuns)
    \/ SimularAccepted
    \/ GenerateGraphs
    \/ SimularCatches
    \/ DismissError
    \/ ClickMedia
    \/ ClickPdf
    \/ ClickComparar
    \/ MediaStyleChanged
    \/ PdfStyleChanged
    \/ SpinChanged
    \/ Tick
    \/ AfterFires
    \/ RenderStep
    \/ GraphsStep

SpecScreen == InitUI /\ [][NextScreen]_vars

\* ------------------------------------------------------------ properties
\* positions of graphs() after the parameters were read, after theta and the
\* grid were computed, and from the time loop on
AfterParse == pc \in {"derive", "allocate", "beyond", "loop", "flatten",
                      "kde", "done", "raised"}
AfterDerive == pc \in {"allocate", "beyond", "loop", "flatten", "kde", "done",
                       "raised"}
InLoopOrLater == pc \in {"loop", "flatten", "kde", "done", "raised"}
AfterFlatten == pc \in {"kde", "done", "raised"}

\* C1: for T > 0 and dt > 0 the time grid has exactly N = max(2, ceil(T/dt))
\* points (N >= 2, N*dt >= T, and (N-1)*dt < T unless N = 2), its first
\* point is 0 and its last point is T.
GridSizeAndEnds ==
    (AfterDerive /\ err # "ZeroDivisionError" /\ QLt(Zero, T) /\ QLt(Zero, dt))
    => /\ N >= 2
       /\ QLe(T, QMul(QInt(N), dt))
       /\ (N > 2 => QLt(QMul(QInt(N - 1), dt), T))
       /\ pc # "beyond"
          => /\ DOMAIN x = 0..(N - 1)
             /\ x[0] = Zero
             /\ x[N - 1] = T

\* reached: a returned run whose T/dt is not an integer and rounds up to 3
GridRoundsUp ==
    /\ pc = "done"
    /\ N = 3
    /\ QMul(QInt(N), dt) # T
    /\ x[N - 1] = T

\* C2: every row of the ensemble holds V0 at column 0, from the start of the
\* time loop up to the return, and the time loop never assigns column 0.
ColumnZeroIsV0 ==
    InLoopOrLater
    => \A i \in Rows : trajectories[i][0] = V0 /\ writes[i][0] = 0

\* reached: graphs() returned two rows of three columns whose later columns
\* were assigned by the loop and differ from V0
ColumnZeroKept ==
    /\ pc = "done"
    /\ n_traj = 2
    /\ N = 3
    /\ V0 # Zero
    /\ \A i \in Rows : writes[i][N - 1] = 1 /\ trajectories[i][N - 1] # V0

\* C3: the time loop visits t = 1..N-1 in increasing order; every cell of a
\* visited column was assigned exactly once and holds
\* V[i][c-1] + theta*(Vf - V[i][c-1])*dt + sigma*sqrt(dt)*Z[i][c-1], computed
\* from the same row only; cells of columns not yet visited are unassigned.
EulerMaruyamaRecurrence ==
    InLoopOrLater
    => \A i \in Rows : \A c \in 1..(N - 1) :
          IF c < t
          THEN /\ writes[i][c] = 1
               /\ trajectories[i][c] =
                    QAdd(QAdd(trajectories[i][c - 1],
                              QMul(QMul(theta,
                                        QSub(Vf, trajectories[i][c - 1])), dt)),
                         QMul(QMul(sigma, QSqrt(dt)), QInt(normals[i][c - 1])))
          ELSE /\ writes[i][c] = 0
               /\ trajectories[i][c] = Zero

\* reached: the loop finished on two rows that drew different increments
RowsDrewDifferentIncrements ==
    /\ pc = "flatten"
    /\ n_traj = 2
    /\ N = 3
    /\ t = N
    /\ normals[0] # normals[1]
    /\ trajectories[0] # trajectories[1]

\* C4: when R*C is 0, theta is 1 and no division error is raised; when R*C is
\* not 0, theta is 1/(R*C).
ThetaFallback ==
    AfterDerive
    => /\ err # "ZeroDivisionError"
       /\ (QMul(R, C) = Zero => theta = One)
       /\ (QMul(R, C) # Zero => QMul(theta, QMul(R, C)) = One)

\* reached: graphs() returned for a record whose R*C is 0
ZeroRCReturns ==
    /\ pc = "done"
    /\ QMul(R, C) = Zero
    /\ theta = One

EqualSampleIsSynthesized ==
    AfterFlatten
    => /\ (Cardinality(Values(Flat(trajectories, Rows, Cols))) < 2
             => synthesized)
       /\ Cardinality(Values(X_all)) >= 2

\* a record of correctly typed values that satisfy the constraints
ValidRecord(p) ==
    /\ DOMAIN p = Keys
    /\ \A k \in Keys : p[k].num
    /\ \A k \in Keys \ {kV0} : QLt(Zero, p[k].q)
    /\ p[kN].q.d = 1

\* C7: for a valid record and any drawn increments graphs() does not raise.
ValidInputNeverRaises ==
    ValidRecord(parametros) => pc # "raised"

\* the number a present field of the record holds
Supplied(k) == parametros[k].q

\* C10: when no field is malformed, every absent field takes its default
\* (R 2000, C 1e-3 F, V0 0, Vf 10, sigma 1, dt 0.01, T 10, nTraj 20) and every
\* present valid field keeps its value (C converted from uF to F).
DefaultsForAbsentFields ==
    (AfterParse /\ \A k \in DOMAIN parametros : parametros[k].num)
    => /\ R = (IF kR \in DOMAIN parametros THEN Supplied(kR) ELSE QInt(2000))
       /\ C = (IF kC \in DOMAIN parametros
               THEN QDiv(Supplied(kC), QInt(1000000)) ELSE Rat(1, 1000))
       /\ V0 = (IF kV0 \in DOMAIN parametros THEN Supplied(kV0) ELSE Zero)
       /\ Vf = (IF kVf \in DOMAIN parametros THEN Supplied(kVf) ELSE QInt(10))
       /\ sigma = (IF kSigma \in DOMAIN parametros THEN Supplied(kSigma)
                   ELSE One)
       /\ dt = (IF kDt \in DOMAIN parametros THEN Supplied(kDt)
                ELSE Rat(1, 100))
       /\ T = (IF kT \in DOMAIN parametros THEN Supplied(kT) ELSE QInt(10))
       /\ (kN \notin DOMAIN parametros => n_traj = 20)
       /\ ((kN \in DOMAIN parametros /\ Supplied(kN).d = 1
            /\ Supplied(kN).n >= 1) => n_traj = Supplied(kN).n)

\* reached: graphs() returned for a record without R and V0 whose other
\* fields are supplied
SomeAbsentSomeSupplied ==
    /\ pc = "done"
    /\ DOMAIN parametros = Keys \ {kR, kV0}
    /\ R = QInt(2000)
    /\ V0 = Zero
    /\ T = QInt(3)

ParseFailureUsesAllDefaults ==
    (AfterParse /\ \E k \in DOMAIN parametros : ~parametros[k].num)
    => /\ R = QInt(2000)
       /\ C = Rat(1, 1000)
       /\ V0 = Zero
       /\ Vf = QInt(10)
       /\ sigma = One
       /\ dt = Rat(1, 100)
       /\ T = QInt(10)
       /\ n_traj = 20
       /\ err = ""
       /\ pc # "raised"

\* reached: the resistance was not numeric, and the total time 3 that was
\* supplied with it was replaced by 10
ValidFieldDiscarded ==
    /\ AfterDerive
    /\ DOMAIN parametros = Keys
    /\ ~parametros[kR].num
    /\ parametros[kT] = NumV(QInt(3))
    /\ T = QInt(10)
    /\ N = 1000

DensityStageKeepsEnsemble ==
    /\ [][((pc = "loop" /\ t >= N) \/ pc \in {"flatten", "kde"})
            => (trajectories' = trajectories /\ n_traj' = n_traj /\ N' = N)]_vars
    /\ [](pc = "done"
            => /\ returned[3] = trajectories
               /\ DOMAIN trajectories = Rows
               /\ \A i \in Rows : DOMAIN trajectories[i] = Cols)

\* reached: graphs() returned an ensemble of two different rows
TwoRowEnsembleReturned ==
    /\ pc = "done"
    /\ n_traj = 2
    /\ returned[3] = trajectories
    /\ trajectories[0] # trajectories[1]

\* C18: the mean trajectory has N values, the value at column c being the
\* sum of column c over the rows divided by nTraj; its value at index 0 is
\* V0; data1 carries it.
MeanTrajectoryIsColumnMean ==
    pc \in {"flatten", "kde", "done", "raised"}
    => /\ DOMAIN mean_traj = 0..(N - 1)
       /\ \A c \in Cols :
             QMul(QInt(n_traj), mean_traj[c]) =
                 ColumnSum(trajectories, c, n_traj - 1)
       /\ mean_traj[0] = V0
       /\ data1.y = mean_traj
       /\ data1.x = x

\* reached: graphs() returned for two rows whose last values differ, the
\* mean lying strictly between them
MeanBetweenTwoRows ==
    /\ pc = "done"
    /\ n_traj = 2
    /\ N = 3
    /\ QLt(trajectories[0][N - 1], mean_traj[N - 1])
    /\ QLt(mean_traj[N - 1], trajectories[1][N - 1])

\* C19: for R = 2000 and C = 1000 uF theta is 1/2; the analytical density has
\* mean Vf + (V0 - Vf)*exp(-theta*T) and variance
\* sigma^2/(2*theta)*(1 - exp(-2*theta*T)), which for V0 = 0, Vf = 10,
\* sigma = 1, T = 10 are 10 - 10*exp(-5) and 1 - exp(-10).
AnalyticalStatistics ==
    /\ (AfterDerive /\ R = QInt(2000) /\ C = Rat(1, 1000))
       => theta = Rat(1, 2)
    /\ pc = "done"
       => /\ data2.pdf_an.mean =
                [c |-> Vf, k |-> QSub(V0, Vf),
                 e |-> QSub(Zero, QMul(theta, T))]
          /\ QMul(QMul(QInt(2), theta), data2.pdf_an.var.c) = QMul(sigma, sigma)
          /\ data2.pdf_an.var.k = QSub(Zero, data2.pdf_an.var.c)
          /\ data2.pdf_an.var.e = QSub(Zero, QMul(QMul(QInt(2), theta), T))
    /\ (pc = "done" /\ R = QInt(2000) /\ C = Rat(1, 1000) /\ V0 = Zero
        /\ Vf = QInt(10) /\ sigma = One /\ T = QInt(10))
       => /\ data2.pdf_an.mean =
                [c |-> QInt(10), k |-> QInt(-10), e |-> QInt(-5)]
          /\ data2.pdf_an.var =
                [c |-> One, k |-> QInt(-1), e |-> QInt(-10)]

\* reached: graphs() returned for R = 2000, C = 1000 uF, V0 = 0, Vf = 10,
\* sigma = 1, T = 10
ReferenceCircuitReturns ==
    /\ pc = "done"
    /\ DOMAIN parametros = Keys
    /\ parametros[kR] = NumV(QInt(2000))
    /\ parametros[kC] = NumV(QInt(1000))
    /\ V0 = Zero /\ Vf = QInt(10) /\ sigma = One /\ T = QInt(10)
    /\ theta = Rat(1, 2)

\* the variables that only handlers of the main thread assign
handlerVars ==
    <<screen, entries, initial_values, dialog, gs_data1, gs_data2,
      gs_trajectories, current_mode, pending_render_id>>

\* C12 as stated: graphs() runs on a background thread, not on the thread
\* that handles the UI events.
GraphsRunsOffUiThread ==
    pc # "idle" => graphs_thread # "MainThread"

\* C12 amended: graphs() runs on the main thread, inside the callback of the
\* button, and until it returns or raises no other handler runs; only
\* render_plot runs on threads of its own, which go on meanwhile.
GraphsRunsOnUiThread ==
    /\ [](pc # "idle" => graphs_thread = "MainThread")
    /\ [][(pc # "idle" /\ pc' # "idle") => UNCHANGED handlerVars]_vars

\* reached: graphs() is in its time loop while a render_plot thread started
\* after an earlier run is still drawing
SimulationBesideRender ==
    /\ pc = "loop"
    /\ graphs_thread = "MainThread"
    /\ \E i \in 1..Len(renders) : renders[i].at = "drawing"

\* C13: at most one render_plot thread is in progress at any time.
AtMostOneRenderThread ==
    Len(renders) <= 1

\* C14: at most one scheduled redraw is outstanding; a call of
\* _debounce_redraw leaves exactly one, with the full delay ahead; a
\* callback runs only when its delay has elapsed since the last call, and
\* none is left after it.
DebounceOnePending ==
    /\ [](Len(timers) <= 1)
    /\ [][(\/ Len(timers') > Len(timers)
           \/ /\ Len(timers') = Len(timers)
              /\ timers # <<>>
              /\ timers'[Len(timers')] > timers[Len(timers)])
          => timers' = <<DebounceTicks>>]_vars
    /\ [][Len(timers') < Len(timers)
          => (timers[1] = 0 /\ timers' = <<>>)]_vars

\* reached: the callback scheduled by a spinbox change has run and started
\* a render, and none is outstanding
DebouncedRedrawRan ==
    /\ pending_render_id = "after"
    /\ timers = <<>>
    /\ renders # <<>>
    /\ current_mode = "comparacion"

RECURSIVE CellOf(_, _, _, _)
CellOf(p, th, z, c) ==
    IF c = 0 THEN p.V0
    ELSE LET prev == CellOf(p, th, z, c - 1)
         IN  QAdd(QAdd(prev, QMul(QMul(th, QSub(p.Vf, prev)), p.dt)),
                  QMul(QMul(p.sigma, QSqrt(p.dt)), QInt(z[c - 1])))

\* the tuple graphs() returns for the record prm when it draws the
\* increments z
ResultOf(prm, z) ==
    LET p == ReadParams(prm)
        th == Theta(p.R, p.C).val
        n == GridSize(p.T, p.dt)
        rows == 0..(p.n_traj - 1)
        cols == 0..(n - 1)
        traj == [i \in rows |-> [c \in cols |-> CellOf(p, th, z[i], c)]]
    IN  <<[x |-> Linspace(Zero, p.T, n), y |-> ColumnMean(traj, rows, cols),
           n_traj |-> p.n_traj],
          Comparison(Flat(traj, rows, cols), p.n_traj,
                     PdfAn(p.V0, p.Vf, p.sigma, th, p.T)),
          traj>>

\* C17: while graphs() runs the dictionary it was given keeps its keys and
\* values, and the tuple it returns is a function of that dictionary and of
\* the increments it drew, whatever earlier calls did.
InputKeptAndNoCarriedState ==
    /\ [][(pc # "idle" /\ pc' # "idle")
          => (parametros' = parametros /\ initial_values' = initial_values)]_vars
    /\ [](pc = "done" => returned = ResultOf(parametros, normals))

\* reached: a later call returned a tuple that differs from the one an
\* earlier call returned, which is still stored
LaterCallReturnsAnew ==
    /\ pc = "done"
    /\ gs_data1 # Unset
    /\ returned[1] # gs_data1
    /\ returned[3] # gs_trajectories


\* C21: for every column index t of the ensemble the time-grid value x[t]
\* equals t*dt, the simulated time reached after t Euler-Maruyama steps of
\* size dt; in particular the last column, plotted at T, is the state after
\* simulated time (N-1)*dt = T.
GridTimeIsStepCount ==
    (InLoopOrLater /\ err = "")
    => /\ \A c \in Cols : x[c] = QMul(QInt(c), dt)
       /\ QMul(QInt(N - 1), dt) = T

\* C26: for any integer run count supplied to graphs(), zero and negative
\* values included, n_traj is max(1, value) when the record parses; in every
\* call the ensemble has at least one row and, N being at least 2, the pooled
\* sample has at least 2 values.
RunCountAtLeastOne ==
    /\ (AfterParse /\ kN \in DOMAIN parametros
            /\ (\A k \in DOMAIN parametros : parametros[k].num)
            /\ Supplied(kN).d = 1)
       => n_traj = (IF Supplied(kN).n < 1 THEN 1 ELSE Supplied(kN).n)
    /\ AfterParse => n_traj >= 1
    /\ InLoopOrLater => (N >= 2 /\ Cardinality(DOMAIN trajectories) >= 1)
    /\ AfterFlatten => (Len0(X_all) >= 2 /\ ~synthesized)

\* reached: graphs() returned for a run count of zero and for a negative one,
\* with one row and a pooled sample of N values
ZeroRunCountReturns ==
    /\ pc = "done"
    /\ DOMAIN parametros = Keys
    /\ Supplied(kN).n <= 0
    /\ n_traj = 1
    /\ DOMAIN trajectories = {0}
    /\ Len0(X_all) = N

\* C25: when simular() rejects the input (a non-voltage field <= 0, a run
\* count <= 0 or an entry that is no number: the error box opens without
\* graphs() having been entered) initial_values is left exactly as it was
\* before the attempt, the screen stays on InputScreen and no simulation is
\* run.
RejectionKeepsInitialValues ==
    [][(pc = "idle" /\ screen = "InputScreen" /\ ~dialog /\ dialog')
       => /\ initial_values' = initial_values
          /\ screen' = "InputScreen"
          /\ pc' = "idle"
          /\ returned' = returned]_vars

\* C22: every call of display_figure is followed by a state in which the
\* three buttons are enabled again, is_rendering is False and the animation
\* has stopped, also when render_plot raises: once no render_plot thread is
\* left, the buttons are enabled, the flag is down and no animation runs.
RenderAlwaysCleansUp ==
    renders = <<>>
    => (buttons = "normal" /\ ~is_rendering /\ animating = 0)

\* C23: after the last change of a style control the figure on display
\* reflects the latest values, also when the change found is_rendering set:
\* once no render_plot thread and no redraw callback is left, a figure with
\* a mean plot shows the runs exactly when "Mostrar corridas" is checked.
LatestStyleDisplayed ==
    (pc = "idle" /\ renders = <<>> /\ timers = <<>> /\ canvas # NoFigure
        /\ canvas.kind \in {"media", "comparacion"})
    => canvas.runs = show_runs

\* C24: every view operation and every style or colour redraw asks
\* display_figure for the figure of the kind current_mode names, which is
\* also the control panel shown ('media' the mean plot, 'pdf' the density
\* plot, 'comparacion' both side by side); a PDF colour picked in
\* 'comparacion' mode redraws the two-panel comparison.
FigureMatchesMode ==
    [][Len(renders') > Len(renders)
       => renders'[Len(renders')].fig.kind = current_mode']_vars

=========================================================================
